---------------------------- MODULE Spec2Model ----------------------------
(***************************************************************************)
(* The verification-challenge solver of TheKeyMaster bot (src/bot.js):     *)
(* autoVerify hands the challenge of a forum response to solveChallenge,   *)
(* which normalises the text, rejoins the fragments, substitutes number    *)
(* words, extracts the numbers, infers the operation and formats the       *)
(* answer.  Strings are sequences of one-character strings, and every      *)
(* regular expression of the source is an operator over such sequences.    *)
(***************************************************************************)
EXTENDS Integers, Sequences, FiniteSets, TLC

(***************************************************************************)
(* Characters                                                              *)
(***************************************************************************)
LowerSeq ==
  <<"a","b","c","d","e","f","g","h","i","j","k","l","m",
    "n","o","p","q","r","s","t","u","v","w","x","y","z">>

UpperSeq ==
  <<"A","B","C","D","E","F","G","H","I","J","K","L","M",
    "N","O","P","Q","R","S","T","U","V","W","X","Y","Z">>

DigitSeq == <<"0","1","2","3","4","5","6","7","8","9">>

\* [a-z]
Lower == {LowerSeq[i] : i \in 1..Len(LowerSeq)}

Upper == {UpperSeq[i] : i \in 1..Len(UpperSeq)}

\* \d
Digit == {DigitSeq[i] : i \in 1..Len(DigitSeq)}

\* \s, as far as the characters of the model go
Whitespace == {" ", "\t", "\n"}

\* \w : the characters between which \b sees no boundary
WordChar == Lower \cup Upper \cup Digit \cup {"_"}

\* the subsequence of str at the positions of idx, in order
RECURSIVE Pick(_, _, _)
Pick(str, idx, i) ==
  IF i > Len(str) THEN <<>>
  ELSE IF i \in idx THEN <<str[i]>> \o Pick(str, idx, i + 1)
       ELSE Pick(str, idx, i + 1)

\* the non-empty pattern pat matches str at position i, 1 <= i <= Len(str)
MatchAt(str, i, pat) ==
  /\ str[i] = pat[1]
  /\ i + Len(pat) - 1 <= Len(str)
  /\ \A k \in 2..Len(pat) : str[i + k - 1] = pat[k]

\* RegExp.prototype.test of a literal pattern: pat occurs somewhere in str
Contains(str, pat) == \E i \in 1..(Len(str) - Len(pat) + 1) : MatchAt(str, i, pat)

\* the least element of a non-empty set of integers
Least(S) == CHOOSE i \in S : \A j \in S : i <= j

\* the end of the maximal run of digits that starts at position i
RECURSIVE RunEnd(_, _)
RunEnd(str, i) ==
  IF i + 1 <= Len(str) /\ str[i + 1] \in Digit THEN RunEnd(str, i + 1) ELSE i

\* the value of a decimal digit
DigitVal(c) == (CHOOSE i \in 1..10 : DigitSeq[i] = c) - 1

\* Number(m[1]) of a run of digits
RECURSIVE ToNumber(_)
ToNumber(ds) ==
  IF ds = <<>> THEN 0
  ELSE 10 * ToNumber(SubSeq(ds, 1, Len(ds) - 1)) + DigitVal(ds[Len(ds)])

\* the decimal digits of a natural number, as `${val}` prints them
RECURSIVE NatToStr(_)
NatToStr(n) ==
  IF n < 10 THEN <<DigitSeq[n + 1]>>
  ELSE NatToStr(n \div 10) \o <<DigitSeq[(n % 10) + 1]>>

(***************************************************************************)
(* Normalizer: bot.js lines 78-79                                          *)
(***************************************************************************)
ToLowerChar(c) ==
  IF c \in Upper THEN LowerSeq[CHOOSE i \in 1..26 : UpperSeq[i] = c] ELSE c

\* challenge.toLowerCase()
ToLowerCase(str) == [i \in 1..Len(str) |-> ToLowerChar(str[i])]

\* the replacement of line 78 with the hyphen left in the text
ReplaceNoise_KeepsHyphen(str) ==
  [i \in 1..Len(str) |->
     IF str[i] \in Lower \cup Digit \cup Whitespace \cup {"-"} THEN str[i] ELSE " "]

\* .replace(/[^a-z0-9\s]/g, " ")
ReplaceNoise(str) ==
  [i \in 1..Len(str) |->
     IF str[i] \in Lower \cup Digit \cup Whitespace THEN str[i] ELSE " "]

\* .replace(/\s+/g, " ") : every maximal run of whitespace becomes one space
CollapseSpaces(str) ==
  LET one == [i \in 1..Len(str) |-> IF str[i] \in Whitespace THEN " " ELSE str[i]]
  IN  Pick(one, {i \in 1..Len(str) :
                   ~(str[i] \in Whitespace /\ i > 1 /\ str[i - 1] \in Whitespace)}, 1)

\* .trim()
Trim(str) ==
  LET ink == {i \in 1..Len(str) : str[i] \notin Whitespace}
  IN  IF ink = {} THEN <<>>
      ELSE SubSeq(str, Least(ink), CHOOSE i \in ink : \A j \in ink : j <= i)

\* the fold of line 79 taking one letter off a long run instead of cutting
\* the run to two
FoldLetters_DropsThird(str) ==
  Pick(str, {i \in 1..Len(str) :
               ~(/\ str[i] \in Lower /\ i >= 3
                 /\ str[i - 1] = str[i] /\ str[i - 2] = str[i]
                 /\ (i = 3 \/ str[i - 3] # str[i]))}, 1)

\* .replace(/[a-z]+/g, (w) => w.replace(/(.)\1{2,}/g, "$1$1")) :
\* of every run of three or more equal letters the first two are kept
FoldLetters(str) ==
  Pick(str, {i \in 1..Len(str) :
               ~(str[i] \in Lower /\ i >= 3 /\ str[i - 1] = str[i] /\ str[i - 2] = str[i])}, 1)

\* lines 78-79: the normalised text s
Normalize(challenge) ==
  FoldLetters(Trim(CollapseSpaces(ReplaceNoise(ToLowerCase(challenge)))))

(***************************************************************************)
(* Reassembler: bot.js lines 80-81                                         *)
(***************************************************************************)
\* s.replace(/\s/g, "")
StripSpaces(str) == Pick(str, {i \in 1..Len(str) : str[i] \notin Whitespace}, 1)

\* .replace(/(.)\1{2,}/g, "$1$1") on the whole string: digits fold as letters do
FoldAny(str) ==
  Pick(str, {i \in 1..Len(str) :
               ~(i >= 3 /\ str[i - 1] = str[i] /\ str[i - 2] = str[i])}, 1)

Reassemble(s) == FoldAny(StripSpaces(s))

(***************************************************************************)
(* Number-word table: bot.js lines 83-101.  A pattern is its alternatives  *)
(* in the order the regular expression tries them, its lookahead and the   *)
(* value that replaces it.                                                 *)
(***************************************************************************)
\* lines 85-86: the tens words the compounds are built from
CompoundTens ==
  <<[w |-> <<"t","w","e","n","t","y">>, v |-> 20],
    [w |-> <<"t","h","i","r","t","y">>, v |-> 30],
    [w |-> <<"f","o","r","t","y">>, v |-> 40],
    [w |-> <<"f","i","f","t","y">>, v |-> 50],
    [w |-> <<"s","i","x","t","y">>, v |-> 60],
    [w |-> <<"s","e","v","e","n","t","y">>, v |-> 70],
    [w |-> <<"e","i","g","h","t","y">>, v |-> 80],
    [w |-> <<"n","i","n","e","t","y">>, v |-> 90]>>

\* lines 89-90: the ones words the compounds are built from
CompoundOnes ==
  <<[w |-> <<"o","n","e">>, v |-> 1],
    [w |-> <<"t","w","o">>, v |-> 2],
    [w |-> <<"t","h","r","e","e">>, v |-> 3],
    [w |-> <<"f","o","u","r">>, v |-> 4],
    [w |-> <<"f","i","v","e">>, v |-> 5],
    [w |-> <<"s","i","x">>, v |-> 6],
    [w |-> <<"s","e","v","e","n">>, v |-> 7],
    [w |-> <<"e","i","g","h","t">>, v |-> 8],
    [w |-> <<"n","i","n","e">>, v |-> 9]>>

\* lines 84-92: new RegExp(tens + ones), tens-major as flatMap lays them out
Compounds ==
  [k \in 1..(Len(CompoundTens) * Len(CompoundOnes)) |->
     LET t == CompoundTens[((k - 1) \div Len(CompoundOnes)) + 1]
         o == CompoundOnes[((k - 1) % Len(CompoundOnes)) + 1]
     IN  [alts |-> <<t.w \o o.w>>, look |-> "none", val |-> t.v + o.v]]

\* lines 93-94
Tens ==
  <<[alts |-> <<<<"n","i","n","e","t","y">>>>, look |-> "none", val |-> 90],
    [alts |-> <<<<"e","i","g","h","t","y">>>>, look |-> "none", val |-> 80],
    [alts |-> <<<<"s","e","v","e","n","t","y">>>>, look |-> "none", val |-> 70],
    [alts |-> <<<<"s","i","x","t","y">>>>, look |-> "none", val |-> 60],
    [alts |-> <<<<"f","i","f","t","y">>>>, look |-> "none", val |-> 50],
    [alts |-> <<<<"f","o","u","r","t","y">>, <<"f","o","r","t","y">>>>, look |-> "none", val |-> 40],
    [alts |-> <<<<"t","h","i","r","t","y">>>>, look |-> "none", val |-> 30],
    [alts |-> <<<<"t","w","e","n","t","y">>>>, look |-> "none", val |-> 20]>>

\* lines 95-97: t? is greedy, the spelling with the t is tried first
Teens ==
  <<[alts |-> <<<<"n","i","n","e","t","e","e","n">>>>, look |-> "none", val |-> 19],
    [alts |-> <<<<"e","i","g","h","t","e","e","n">>>>, look |-> "none", val |-> 18],
    [alts |-> <<<<"s","e","v","e","n","t","e","e","n">>>>, look |-> "none", val |-> 17],
    [alts |-> <<<<"s","i","x","t","e","e","n">>>>, look |-> "none", val |-> 16],
    [alts |-> <<<<"f","i","f","t","e","e","n">>, <<"f","i","f","e","e","n">>>>, look |-> "none", val |-> 15],
    [alts |-> <<<<"f","o","u","r","t","e","e","n">>, <<"f","o","u","r","e","e","n">>>>, look |-> "none", val |-> 14],
    [alts |-> <<<<"t","h","i","r","t","e","e","n">>, <<"t","h","i","r","e","e","n">>>>, look |-> "none", val |-> 13],
    [alts |-> <<<<"t","w","e","l","v","e">>>>, look |-> "none", val |-> 12],
    [alts |-> <<<<"e","l","e","v","e","n">>>>, look |-> "none", val |-> 11]>>

\* lines 98-100
Singles ==
  <<[alts |-> <<<<"t","e","n">>>>, look |-> "notletter", val |-> 10],
    [alts |-> <<<<"n","i","n","e">>>>, look |-> "not_t", val |-> 9],
    [alts |-> <<<<"e","i","g","h","t">>>>, look |-> "not_e", val |-> 8],
    [alts |-> <<<<"s","e","v","e","n">>>>, look |-> "not_t", val |-> 7],
    [alts |-> <<<<"s","i","x">>>>, look |-> "not_t", val |-> 6],
    [alts |-> <<<<"f","i","v","e">>>>, look |-> "none", val |-> 5],
    [alts |-> <<<<"f","o","u","r">>>>, look |-> "not_t", val |-> 4],
    [alts |-> <<<<"t","h","r","e","e">>>>, look |-> "none", val |-> 3],
    [alts |-> <<<<"t","w","o">>>>, look |-> "none", val |-> 2],
    [alts |-> <<<<"o","n","e">>>>, look |-> "notletter", val |-> 1]>>

\* lines 83-101
WORD_MAP == Compounds \o Tens \o Teens \o Singles

\* the lookaheads (?=[^a-z]|$), (?=[^t]|$), (?=[^e]|$) at position j, the first
\* position after the match
LookAhead(str, j, look) ==
  CASE look = "none"      -> TRUE
    [] look = "notletter" -> j > Len(str) \/ str[j] \notin Lower
    [] look = "not_t"     -> j > Len(str) \/ str[j] # "t"
    [] look = "not_e"     -> j > Len(str) \/ str[j] # "e"

\* the alternative of re that matches str at position i: its index, 0 when none does
AltAt(str, i, re) ==
  LET ok == {a \in 1..Len(re.alts) :
               /\ MatchAt(str, i, re.alts[a])
               /\ LookAhead(str, i + Len(re.alts[a]), re.look)}
  IN  IF ok = {} THEN 0 ELSE Least(ok)

\* line 104: str.replace(re, ` ${val} `) with a regular expression without the g
\* flag: the leftmost match alone is replaced
ReplaceFirst(str, re) ==
  LET at == {i \in 1..Len(str) : AltAt(str, i, re) # 0}
  IN  IF at = {} THEN str
      ELSE LET i == Least(at)
               n == Len(re.alts[AltAt(str, i, re)])
           IN  SubSeq(str, 1, i - 1) \o <<" ">> \o NatToStr(re.val) \o <<" ">>
                 \o SubSeq(str, i + n, Len(str))

\* re matches somewhere in str
Matches(str, re) ==
  \E i \in 1..Len(str) : \E a \in 1..Len(re.alts) :
     /\ MatchAt(str, i, re.alts[a])
     /\ LookAhead(str, i + Len(re.alts[a]), re.look)

\* lines 103-105: the loop over WORD_MAP from pattern k on.  A pattern without a
\* match leaves the string as it is, so the loop moves on to the first pattern
\* that has one, replaces its match and goes on with the pattern after it.
RECURSIVE ApplyWordMap(_, _)
ApplyWordMap(str, k) ==
  LET hit == {j \in k..Len(WORD_MAP) : Matches(str, WORD_MAP[j])}
  IN  IF hit = {} THEN str
      ELSE ApplyWordMap(ReplaceFirst(str, WORD_MAP[Least(hit)]), Least(hit) + 1)

(***************************************************************************)
(* Number extraction: bot.js lines 107-109                                 *)
(***************************************************************************)
\* line 107: /\b(\d+(?:\.\d+)?)\b/g over s.  A match starts at a digit with no
\* word character before it, takes the maximal run of digits and, when a point
\* and a digit follow, the digits after the point, and ends before a character
\* that is no word character.
DigitMatchEnd(str, i) ==
  LET e == RunEnd(str, i)
      f == IF e + 2 <= Len(str) /\ str[e + 1] = "." /\ str[e + 2] \in Digit
           THEN RunEnd(str, e + 2) ELSE e
  IN  IF f = Len(str) \/ str[f + 1] \notin WordChar THEN f
      ELSE IF e = Len(str) \/ str[e + 1] \notin WordChar THEN e
      ELSE 0

RECURSIVE DigitMatchesFrom(_, _)
DigitMatchesFrom(str, i) ==
  IF i > Len(str) THEN <<>>
  ELSE IF /\ str[i] \in Digit
          /\ (i = 1 \/ str[i - 1] \notin WordChar)
          /\ DigitMatchEnd(str, i) # 0
       THEN <<SubSeq(str, i, DigitMatchEnd(str, i))>>
              \o DigitMatchesFrom(str, DigitMatchEnd(str, i) + 1)
       ELSE DigitMatchesFrom(str, i + 1)

\* line 108: /(?:^|\s)(\d+)(?:\s|$)/g over stripped.  At position p the match
\* begins with the start of the string or with one white-space character, which
\* it consumes; the digits run to their maximal end and a white-space character,
\* consumed too, or the end of the string follows.  The result is <<first digit,
\* last digit, position after the match>>, or <<>>.
WordNumAt(str, p) ==
  LET d == IF p = 1 /\ str[1] \in Digit THEN 1
           ELSE IF str[p] \in Whitespace /\ p + 1 <= Len(str) /\ str[p + 1] \in Digit
                THEN p + 1 ELSE 0
  IN  IF d = 0 THEN <<>>
      ELSE LET e == RunEnd(str, d)
           IN  IF e = Len(str) THEN <<d, e, e + 1>>
               ELSE IF str[e + 1] \in Whitespace THEN <<d, e, e + 2>>
               ELSE <<>>

RECURSIVE WordNumsFrom(_, _)
WordNumsFrom(str, p) ==
  IF p > Len(str) THEN <<>>
  ELSE LET m == WordNumAt(str, p)
       IN  IF m = <<>> THEN WordNumsFrom(str, p + 1)
           ELSE <<ToNumber(SubSeq(str, m[1], m[2]))>> \o WordNumsFrom(str, m[3])

\* [...new Set(seq)] : the first occurrence of every value, in order
Dedup(seq) ==
  Pick(seq, {i \in 1..Len(seq) : \A j \in 1..(i - 1) : seq[j] # seq[i]}, 1)

(***************************************************************************)
(* Operation inference: bot.js lines 115-130                               *)
(***************************************************************************)
\* line 115
TextOf(challenge, s, stripped) ==
  ToLowerCase(challenge) \o <<" ">> \o s \o <<" ">> \o stripped

\* line 117: /slow|loses?|decrease|subtract|minus|less|fewer|reduc/i
SubtractCue(text) ==
  \E p \in {<<"s","l","o","w">>, <<"l","o","s","e">>, <<"d","e","c","r","e","a","s","e">>, <<"s","u","b","t","r","a","c","t">>, <<"m","i","n","u","s">>, <<"l","e","s","s">>, <<"f","e","w","e","r">>, <<"r","e","d","u","c">>} :
     Contains(text, p)

\* line 118: /new|result|final|what/i
ResultCue(text) ==
  \E p \in {<<"n","e","w">>, <<"r","e","s","u","l","t">>, <<"f","i","n","a","l">>, <<"w","h","a","t">>} :
     Contains(text, p)

\* line 121
TripleCue(text) == Contains(text, <<"t","r","i","p","l","e">>)

\* line 122
DoubleCue(text) == Contains(text, <<"d","o","u","b","l","e">>)

\* line 123
MultiplCue(text) == Contains(text, <<"m","u","l","t","i","p","l">>)

\* line 124: /per|each|times/i
PerCue(text) ==
  \E p \in {<<"p","e","r">>, <<"e","a","c","h">>, <<"t","i","m","e","s">>} :
     Contains(text, p)

\* lines 124 and 127: /how\s*much\s*total|total/i and /total/i match the same texts
TotalCue(text) == Contains(text, <<"t","o","t","a","l">>)

\* the cue of line 127 without "split"
DivideCue_NoSplit(text) ==
  \E p \in {<<"d","i","v","i","d","e">>, <<"r","a","t","i","o">>} : Contains(text, p)

\* line 127: /divide|split|ratio/i
DivideCue(text) ==
  \E p \in {<<"d","i","v","i","d","e">>, <<"s","p","l","i","t">>, <<"r","a","t","i","o">>} :
     Contains(text, p)

\* the chain with the additive default replaced by a product
InferOperation_DefaultMultiply(text) ==
  IF SubtractCue(text) /\ ResultCue(text) THEN "subtract"
  ELSE IF TripleCue(text) THEN "triple"
  ELSE IF DoubleCue(text) THEN "double"
  ELSE IF MultiplCue(text) THEN "multiply"
  ELSE IF PerCue(text) /\ TotalCue(text) THEN "multiply"
  ELSE IF DivideCue(text) /\ ~TotalCue(text) THEN "divide"
  ELSE "multiply"

\* the chain with the double rule tried before the triple rule and the
\* subtract rule
InferOperation_DoubleFirst(text) ==
  IF DoubleCue(text) THEN "double"
  ELSE IF SubtractCue(text) /\ ResultCue(text) THEN "subtract"
  ELSE IF TripleCue(text) THEN "triple"
  ELSE IF MultiplCue(text) THEN "multiply"
  ELSE IF PerCue(text) /\ TotalCue(text) THEN "multiply"
  ELSE IF DivideCue(text) /\ ~TotalCue(text) THEN "divide"
  ELSE "add"

\* lines 117-130: the return statement that the chain of ifs reaches
InferOperation(text) ==
  IF SubtractCue(text) /\ ResultCue(text) THEN "subtract"
  ELSE IF TripleCue(text) THEN "triple"
  ELSE IF DoubleCue(text) THEN "double"
  ELSE IF MultiplCue(text) THEN "multiply"
  ELSE IF PerCue(text) /\ TotalCue(text) THEN "multiply"
  ELSE IF DivideCue(text) /\ ~TotalCue(text) THEN "divide"
  ELSE "add"

(***************************************************************************)
(* Calculator: bot.js lines 117-130.  A value is the fraction num/den; the *)
(* quotient of line 128 keeps its divisor, so that a zero divisor is seen. *)
(***************************************************************************)
\* reduce((a, b) => a + b, 0)
RECURSIVE Sum(_)
Sum(seq) == IF seq = <<>> THEN 0 ELSE Sum(SubSeq(seq, 1, Len(seq) - 1)) + seq[Len(seq)]

\* reduce((a, b) => a * b) of a non-empty list
RECURSIVE Product(_)
Product(seq) ==
  IF Len(seq) = 1 THEN seq[1] ELSE Product(SubSeq(seq, 1, Len(seq) - 1)) * seq[Len(seq)]

\* numbers.slice(1)
Rest(seq) == SubSeq(seq, 2, Len(seq))

Whole(n) == [num |-> n, den |-> 1]

\* the calculator with a subtraction that takes the second number alone
Compute_SubtractSecond(op, numbers) ==
  CASE op = "subtract" -> Whole(numbers[1] - numbers[2])
    [] op = "triple"   -> Whole(numbers[1] * 3)
    [] op = "double"   -> Whole(numbers[1] * 2)
    [] op = "multiply" -> Whole(Product(numbers))
    [] op = "divide"   -> [num |-> numbers[1], den |-> numbers[2]]
    [] op = "add"      -> Whole(Sum(numbers))

\* the expression each return statement formats
Compute(op, numbers) ==
  CASE op = "subtract" -> Whole(numbers[1] - Sum(Rest(numbers)))
    [] op = "triple"   -> Whole(numbers[1] * 3)
    [] op = "double"   -> Whole(numbers[1] * 2)
    [] op = "multiply" -> Whole(Product(numbers))
    [] op = "divide"   -> [num |-> numbers[1], den |-> numbers[2]]
    [] op = "add"      -> Whole(Sum(numbers))

(***************************************************************************)
(* Number.prototype.toFixed(2).  The quotient a/d of two integers is the   *)
(* double nearest to it, and toFixed takes the hundredth nearest to that   *)
(* double, the larger one of two equally near.                             *)
(***************************************************************************)
Abs(n) == IF n < 0 THEN 0 - n ELSE n

\* the number of binary digits of a natural number
RECURSIVE BitLength(_)
BitLength(n) == IF n = 0 THEN 0 ELSE 1 + BitLength(n \div 2)

\* the j-th binary digit after the point of r/d, for 0 <= r < d
RECURSIVE FracBit(_, _, _)
FracBit(r, d, j) ==
  IF j = 1 THEN (IF 2 * r >= d THEN 1 ELSE 0) ELSE FracBit((2 * r) % d, d, j - 1)

\* the position of the first 1 after the point of r/d, for 0 < r < d
RECURSIVE FirstOne(_, _)
FirstOne(r, d) == IF 2 * r >= d THEN 1 ELSE 1 + FirstOne(2 * r, d)

\* the binary expansion of r/d ends within n more digits
RECURSIVE Terminates(_, _, _)
Terminates(r, d, n) == r = 0 \/ (n > 0 /\ Terminates((2 * r) % d, d, n - 1))

\* a/d has a finite binary expansion, so the double is the quotient itself
ExactDouble(a, d) == Terminates(a % d, d, BitLength(d))

\* the double nearest to a/d lies above a/d: the digit after the 53 digits of
\* the mantissa is 1 (a/d has no finite expansion, so more digits follow)
DoubleAbove(a, d) ==
  LET whole == a \div d
      r     == a % d
  IN  IF whole > 0 THEN FracBit(r, d, 54 - BitLength(whole)) = 1
      ELSE FracBit(r, d, FirstOne(r, d) + 53) = 1

\* the hundredth nearest to the double of a/d, for a >= 0 and d > 0
Hundredths(a, d) ==
  LET q == (100 * a) \div d
      r == (100 * a) % d
  IN  IF 2 * r > d THEN q + 1
      ELSE IF 2 * r < d THEN q
      ELSE IF ExactDouble(a, d) \/ DoubleAbove(a, d) THEN q + 1
      ELSE q

\* x.toFixed(2) of the value x = num/den, den >= 0
ToFixed2(x) ==
  IF x.den = 0
  THEN IF x.num = 0 THEN <<"N","a","N">>
       ELSE IF x.num > 0 THEN <<"I","n","f","i","n","i","t","y">>
       ELSE <<"-">> \o <<"I","n","f","i","n","i","t","y">>
  ELSE LET h == Hundredths(Abs(x.num), x.den)
       IN  (IF x.num < 0 THEN <<"-">> ELSE <<>>)
             \o NatToStr(h \div 100)
             \o <<".", DigitSeq[((h \div 10) % 10) + 1], DigitSeq[(h % 10) + 1]>>

(***************************************************************************)
(* The challenges the forum sends.  A challenge is a list of words joined  *)
(* by single spaces: up to MaxWords words of FreeWords in any order, or   *)
(* one of the Openings followed by any choice of cue words.                *)
(***************************************************************************)
MaxWords == 3

w_five    == <<"f","i","v","e">>
w_ten     == <<"t","e","n">>
w_seven   == <<"s","e","v","e","n">>
w_and     == <<"a","n","d">>
w_trains  == <<"T","r","a","i","n","s",",">>
w_10      == <<"1","0">>
w_5       == <<"5">>
w_0       == <<"0">>
w_divide  == <<"d","i","v","i","d","e">>
w_sixty   == <<"s","i","x","t","y">>
w_two     == <<"t","w","o">>
w_one     == <<"o","n","e">>
w_forty   == <<"f","o","r","t","y">>
w_eight   == <<"e","i","g","h","t">>
w_minus   == <<"m","i","n","u","s">>
w_what    == <<"w","h","a","t">>
w_triple  == <<"t","r","i","p","l","e">>
w_double  == <<"d","o","u","b","l","e">>
w_multiply == <<"m","u","l","t","i","p","l","y">>
w_per     == <<"p","e","r">>
w_total   == <<"t","o","t","a","l">>

FreeWords == {w_five, w_ten, w_seven, w_and, w_trains, w_10, w_5, w_0, w_divide}

\* how a challenge with cue words opens
Openings ==
  { <<w_seven, w_five, w_two>>, <<w_two, w_sixty>>, <<w_10, w_0>>,
    <<w_10, w_minus, w_five>>, <<w_two, w_seven>>, <<w_one, w_forty>>,
    <<w_five, w_eight>> }

\* the cue words, in the order a challenge lists the ones it has
CueWords == <<w_minus, w_what, w_triple, w_double, w_multiply, w_per, w_total, w_divide>>

\* the words joined by single spaces
RECURSIVE Join(_)
Join(ws) ==
  IF ws = <<>> THEN <<>>
  ELSE IF Len(ws) = 1 THEN ws[1]
  ELSE ws[1] \o <<" ">> \o Join(Rest(ws))

FreeChallenges ==
  UNION { {Join(ws) : ws \in [1..n -> FreeWords]} : n \in 0..MaxWords }

CueChallenges ==
  { Join(ops \o Pick(CueWords, cues, 1)) :
      ops \in Openings, cues \in SUBSET (1..Len(CueWords)) }

\* words with a decimal point and with a teen, misspelt and not
w_3_5     == <<"3",".","5">>
w_fiften  == <<"f","i","f","t","e","n">>
w_fifteen == <<"f","i","f","t","e","e","n">>
w_split   == <<"s","p","l","i","t">>
w_by      == <<"b","y">>
w_plus    == <<"p","l","u","s">>

\* challenges as the verification service words them: mixed case, doubled
\* spaces, letters repeated
BallChallenge ==
  <<"t","h","e"," ","B","A","L","L"," ","w","e","i","g","h","s"," "," ","t",
    "W","e","n","T","y"," ","K","i","l","o","s"," ","a","N","d"," ","A","N",
    "o","t","h","e","r"," ","w","e","i","g","h","s"," "," ","f","i","V","V",
    "V","e"," ","k","i","l","o","s"," ","w","h","a","t"," ","i","s"," ","t",
    "h","e"," ","t","o","t","a","l">>

TrainChallenge ==
  <<"a"," ","t","r","a","i","n"," ","t","r","a","v","e","l","s"," ","a","t",
    " ","f","o","u","r","t","y"," ","m","i","l","e","s"," ","p","e","r"," ",
    "h","o","u","r"," ","a","n","d"," ","s","l","o","w","s"," ","b","y"," ",
    "f","i","v","v","e"," ","w","h","a","t"," ","i","s"," ","t","h","e"," ",
    "n","e","w"," ","s","p","e","e","d">>

TrippleChallenge ==
  <<"t","r","i","p","p","l","e"," ","t","h","e"," ","v","a","l","u","e"," ",
    "o","f"," ","t","w","e","l","v","e">>

SplitChallenge == Join(<<w_split, w_sixty, w_by, w_two>>)

ScenarioChallenges ==
  { BallChallenge, TrainChallenge, TrippleChallenge,
    Join(<<w_3_5, w_and, w_two>>), Join(<<w_two, w_and, w_3_5>>),
    Join(<<w_two, w_fiften>>), Join(<<w_two, w_fifteen>>),
    Join(<<w_fiften, w_and, w_two>>), Join(<<w_fifteen, w_and, w_two>>),
    SplitChallenge, Join(<<w_5, w_plus, w_5>>) }

\* raw text: every string of up to MaxRaw characters, each a letter in
\* either case, a digit, a punctuation mark or a space
MaxRaw == 4

RawChars == {"a", "A", "1", "-", " "}

RawChallenges == UNION { [1..n -> RawChars] : n \in 0..MaxRaw }

Challenges ==
  FreeChallenges \cup CueChallenges \cup ScenarioChallenges \cup RawChallenges

(***************************************************************************)
(* The bot around the solver (src/lib/content.js, src/strategies/moltbook/ *)
(* index.js and the main loop): the environment's secrets, the text under  *)
(* the sanitizer and its verdict, and the state of the strategy module.    *)
(***************************************************************************)
VARIABLES env, candidate, reason, strategies, main, started, cycleCount, cycles,
          ourPosts, lastBootstrap, commentedPosts, repliedComments, lastPostTime,
          now, commentOk, postLog, searched

\* null of JavaScript, as a verdict and as a text
Null == "null"
NullText == <<"null">>

\* no verdict yet
Unchecked == "not checked"

\* String.prototype.includes
Includes(str, sub) ==
  \E i \in 0..(Len(str) - Len(sub)) : \A k \in 1..Len(sub) : str[i + k] = sub[k]

\* String.prototype.slice(i, j) for 0 <= i <= j <= length
Slice(str, i, j) == SubSeq(str, i + 1, j)

\* at least n characters of class follow from position i
HasRun(str, i, n, class) ==
  /\ i + n - 1 <= Len(str)
  /\ \A j \in i..(i + n - 1) : str[j] \in class

\* the literal lit stands at position i
Lit(str, i, lit) ==
  /\ i + Len(lit) - 1 <= Len(str)
  /\ \A k \in 1..Len(lit) : str[i + k - 1] = lit[k]

\* the literal lit stands at position i, whatever the case of the letters (/i)
LitAnyCase(str, i, lit) ==
  /\ i + Len(lit) - 1 <= Len(str)
  /\ \A k \in 1..Len(lit) : ToLowerChar(str[i + k - 1]) = ToLowerChar(lit[k])

AlNum == Lower \cup Upper \cup Digit
HexAnyCase == Digit \cup {"a","b","c","d","e","f","A","B","C","D","E","F"}
TokenChar == AlNum \cup {".", "_", "-"}
SlackChar == AlNum \cup {"-"}
Base64Char == AlNum \cup {"+", "/", "="}
EnvNameChar == Upper \cup {"_"}

Positions(str) == 1..Len(str)

\* lines 9-20: SENSITIVE_PATTERNS, each under RegExp.prototype.test
SensitivePattern(k, str) ==
  CASE k = 1 -> \E i \in Positions(str) :
                  Lit(str, i, <<"s","k","-">>) /\ HasRun(str, i + 3, 20, AlNum)
    [] k = 2 -> \E i \in Positions(str) :
                  Lit(str, i, <<"k","e","y","-">>) /\ HasRun(str, i + 4, 20, AlNum)
    [] k = 3 -> \E i \in Positions(str) :
                  /\ LitAnyCase(str, i, <<"B","e","a","r","e","r">>)
                  /\ \E w \in Positions(str) :
                       /\ HasRun(str, i + 6, w, Whitespace)
                       /\ HasRun(str, i + 6 + w, 20, TokenChar)
    [] k = 4 -> \E i \in Positions(str) :
                  Lit(str, i, <<"g","h","p","_">>) /\ HasRun(str, i + 4, 30, AlNum)
    [] k = 5 -> \E i \in Positions(str) :
                  /\ Lit(str, i, <<"x","o","x">>)
                  /\ HasRun(str, i + 3, 1, {"b","p","a","s"})
                  /\ Lit(str, i + 4, <<"-">>)
                  /\ HasRun(str, i + 5, 10, SlackChar)
    [] k = 6 -> \E i \in Positions(str) : HasRun(str, i, 40, HexAnyCase)
    [] k = 7 -> \E i \in Positions(str) : HasRun(str, i, 40, Base64Char)
    [] k = 8 -> \E i \in Positions(str) :
                  /\ Lit(str, i, <<"p","r","o","c","e","s","s",".","e","n","v",".">>)
                  /\ HasRun(str, i + 12, 1, EnvNameChar)
    [] k = 9 -> \E i \in Positions(str) :
                  LitAnyCase(str, i, <<"M","O","L","T","B","O","O","K","_","A","P","I","_","K","E","Y">>)
    [] k = 10 -> \E i \in Positions(str) :
                  LitAnyCase(str, i, <<"A","N","T","H","R","O","P","I","C","_","A","P","I","_","K","E","Y">>)

\* the sources of the patterns, as the verdict quotes them
PatternSource ==
  << "/sk-[a-zA-Z0-9]{20,}/", "/key-[a-zA-Z0-9]{20,}/",
     "/Bearer\\s+[a-zA-Z0-9._\\-]{20,}/i", "/ghp_[a-zA-Z0-9]{30,}/",
     "/xox[bpas]-[a-zA-Z0-9\\-]{10,}/", "/[a-f0-9]{40,}/i",
     "/[A-Za-z0-9+/=]{40,}/", "/process\\.env\\.[A-Z_]+/",
     "/MOLTBOOK_API_KEY/i", "/ANTHROPIC_API_KEY/i" >>

\* lines 23-27: the secrets of the environment that are set and not empty
SecretsOf(e) ==
  SelectSeq(<<e.MOLTBOOK_API_KEY, e.ANTHROPIC_API_KEY, e.CODECRAB_API_KEY>>,
            LAMBDA x : x # <<>>)

\* lines 31-35: a window of 8 characters of a secret of 12 or more is in str
PartialMatch(str, secret) ==
  /\ Len(secret) >= 12
  /\ \E i \in 0..(Len(secret) - 8) : Includes(str, Slice(secret, i, i + 8))

\* lines 22-43: containsSensitiveData under the environment e
SensitiveDataIn(str, e) ==
  LET secrets == SecretsOf(e)
      hit(k) == Includes(str, secrets[k]) \/ PartialMatch(str, secrets[k])
      hits == {k \in 1..Len(secrets) : hit(k)}
      pats == {k \in 1..Len(PatternSource) : SensitivePattern(k, str)}
  IN  IF hits # {}
      THEN IF Includes(str, secrets[Least(hits)])
           THEN "exact API key match" ELSE "partial API key match"
      ELSE IF pats # {}
           THEN "pattern match: " \o PatternSource[Least(pats)]
           ELSE Null

containsSensitiveData(str) == SensitiveDataIn(str, env)

\* lines 45-52
sanitizeOutput(str) == IF containsSensitiveData(str) # Null THEN NullText ELSE str


(***************************************************************************)
(* The inputs of the sanitizer: environments and texts                     *)
(***************************************************************************)
\* secret values of several lengths
secret14 == <<"m","b","-","S","e","c","r","e","t","-","0","0","0","1">>
secret12 == <<"a","n","t","-","K","e","y","-","0","0","0","2">>
secret10 == <<"c","r","a","b","-","t","o","k","-","3">>
secret8  == <<"c","r","a","b","-","t","-","4">>
secret5  == <<"s","h","o","r","t">>

SecretValues == {secret14, secret12, secret10, secret8, secret5}

Env(m, a, c) == [MOLTBOOK_API_KEY |-> m, ANTHROPIC_API_KEY |-> a, CODECRAB_API_KEY |-> c]

\* an unset variable of the environment is the empty text
Unset == <<>>

Envs ==
  { Env(Unset, Unset, Unset), Env(secret14, Unset, Unset), Env(Unset, secret12, Unset),
    Env(Unset, Unset, secret10), Env(Unset, Unset, secret8), Env(secret5, secret14, Unset),
    Env(secret10, secret12, secret8) }

\* the shortest piece of a secret the texts carry
MinPiece == 7

\* the pieces of at least MinPiece characters of a value, and the value itself
Pieces(v) ==
  {p \in {Slice(v, i, j) : i \in 0..Len(v), j \in 0..Len(v)} : Len(p) >= MinPiece \/ p = v}

\* n times the character c
Rep(c, n) == [i \in 1..n |-> c]

\* texts at and just under the length each pattern asks for
PatternTexts ==
  { <<"s","k","-">> \o Rep("a", n) : n \in {19, 20} }
    \cup { <<"k","e","y","-">> \o Rep("Z", n) : n \in {19, 20} }
    \cup { <<"b","e","a","r","e","r">> \o ws \o Rep(".", n) : ws \in {<<>>, <<" ">>, <<" ", "\n">>}, n \in {19, 20} }
    \cup { <<"g","h","p","_">> \o Rep("0", n) : n \in {29, 30} }
    \cup { <<"x","o","x">> \o <<k>> \o <<"-">> \o Rep("-", n) : k \in {"b", "x"}, n \in {9, 10} }
    \cup { Rep(c, n) : c \in {"f", "F", "g", "="}, n \in {39, 40} }
    \cup { <<"p","r","o","c","e","s","s",".","e","n","v",".">> \o tail : tail \in {<<>>, <<"K">>, <<"_">>, <<"k">>} }
    \cup { <<"m","o","l","t","b","o","o","k","_","a","p","i","_","k","e","y">>, <<"M","O","L","T","B","O","O","K","_","A","P","I","_","K","E">>, <<"A","n","t","h","r","o","p","i","c","_","A","p","i","_","K","e","y">>, <<"A","N","T","H","R","O","P","I","C","-","A","P","I","-","K","E","Y">> }

WordsOfText == <<"n","i","c","e"," ","p","o","s","t">>

Pads == {<<>>, <<"a", " ">>}

\* the texts put to the sanitizer
SanitizerTexts ==
  { pre \o mid \o post :
      pre \in Pads, post \in Pads,
      mid \in (UNION {Pieces(v) : v \in SecretValues}) \cup PatternTexts \cup {<<>>, WordsOfText} }

fixedVars == <<env, candidate, reason, strategies>>
memVars == <<ourPosts, lastBootstrap>>
trackVars == <<commentedPosts, repliedComments>>
timeVars == <<lastPostTime, now>>
ghostVars == <<commentOk, postLog, searched>>

botVars == <<fixedVars, main, started, cycleCount, cycles, memVars, trackVars, timeVars,
             ghostVars>>

(***************************************************************************)
(* The strategy module and the main loop.  A cycle is one call of          *)
(* runCycle; it stands at the call it awaits, and the steps of two cycles  *)
(* interleave at these awaits as the event loop runs them.                 *)
(***************************************************************************)
\* runCycle is called at most this often
MaxCycles == 3

\* the calls of runCycle that may be in progress together
Activations == {"a1", "a2"}

\* the strategies of a mode, in the order run calls them (lines 463-468)
Order ==
  << "replyToComments", "networkWithTopAgents", "createViralPost",
     "commentOnHotPosts", "commentOnSubmolts" >>

Strategies(b, r, n, p, h, s) ==
  [ bootstrapMemory |-> b, replyToComments |-> r, networkWithTopAgents |-> n,
    createViralPost |-> p, commentOnHotPosts |-> h, commentOnSubmolts |-> s ]

NoStrategies == Strategies(FALSE, FALSE, FALSE, FALSE, FALSE, FALSE)

\* the modes the bot is started in
Modes ==
  { Strategies(TRUE, TRUE, FALSE, FALSE, FALSE, FALSE),
    Strategies(FALSE, FALSE, TRUE, FALSE, TRUE, TRUE),
    Strategies(TRUE, FALSE, FALSE, TRUE, FALSE, FALSE) }

\* a call of runCycle that has not begun: where it stands, the cycleCount run
\* was given, the locals of the strategy it is in, and which call it is
NoCycle ==
  [ in |-> "", at |-> "none", count |-> 0, nth |-> 0, pi |-> 0, idx |-> 0, sent |-> 0,
    targets |-> <<>>, target |-> "", text |-> <<>>, title |-> <<>>, stale |-> FALSE ]

\* the cycle c between two strategies: the locals of the last one are gone
Between(c) == [NoCycle EXCEPT !.count = c.count, !.nth = c.nth]

InProgress(c) == c.at \notin {"none", "complete", "rejected"}

\* lines 373-378: the cooldown of tryCreatePost, in minutes
CooldownMinutes == 35

\* the minutes at which Date.now() is read
Instants == {1000, 1034, 1035}

\* the posts and the agents of the forum, and the submolts the bot scans
ForumPosts == {"p1"}
OwnPost == "o1"
NewPost == "o2"
Leaderboard == <<"agent1", "agent2">>
TargetSubmolts == <<"agentinfrastructure", "agents">>

\* src/config.js, line 2
AgentName == "CodeCrab"

\* the comments the forum shows under the bot's post
Thread ==
  << [id |-> "c0", author |-> AgentName], [id |-> "c1", author |-> "agent1"],
     [id |-> "c2", author |-> "agent2"] >>

\* lines 176 and 182: the replies of one invocation
MaxReplies == 5

\* what the language model may write: harmless words, nothing, the name of a
\* variable of the environment, a part of the key
ModelTexts ==
  { WordsOfText, <<>>, <<"p","r","o","c","e","s","s",".","e","n","v",".","K">>,
    <<"a", " ">> \o Slice(secret14, 3, 11) }

\* the environment the bot runs in
BotEnv == Env(secret14, Unset, Unset)

\* the orders in which a set of posts may come out of the sort by score
RECURSIVE Orderings(_)
Orderings(S) ==
  IF S = {} THEN {<<>>}
  ELSE UNION {{<<p>> \o rest : rest \in Orderings(S \ {p})} : p \in S}

\* what the last call of createPost and the last end of tryCreatePost were like:
\* whether createPost was called before the cooldown was over, how
\* tryCreatePost ended, whether it kept lastPostTime, whether it set it to the
\* time of its end
NoPostLog == [early |-> FALSE, how |-> "", kept |-> TRUE, stamped |-> FALSE]

\* lines 463-469 and 53: run goes on with the strategy k, or with the next one
\* when k is disabled or returns at once; past the last one runCycle completes
RECURSIVE Enter(_, _, _)
Enter(c, k, posts) ==
  IF k > Len(Order) THEN [Between(c) EXCEPT !.at = "complete"]
  ELSE IF ~strategies[Order[k]] THEN Enter(c, k + 1, posts)
  ELSE CASE Order[k] = "replyToComments" ->
              IF posts = <<>> THEN Enter(c, k + 1, posts)
              ELSE [Between(c) EXCEPT !.in = Order[k], !.at = "getComments", !.pi = 1]
         [] Order[k] = "networkWithTopAgents" ->
              [Between(c) EXCEPT !.in = Order[k], !.at = "getLeaderboard"]
         [] Order[k] = "createViralPost" ->
              IF now - lastPostTime < CooldownMinutes THEN Enter(c, k + 1, posts)
              ELSE [Between(c) EXCEPT !.in = Order[k], !.at = "getHotFeed"]
         [] Order[k] = "commentOnHotPosts" ->
              [Between(c) EXCEPT !.in = Order[k], !.at = "getHotFeed"]
         [] Order[k] = "commentOnSubmolts" ->
              [Between(c) EXCEPT !.in = Order[k], !.at = "getPosts", !.idx = 1]

\* the strategy that follows the one the cycle c is in
After(c) == 1 + CHOOSE k \in 1..Len(Order) : Order[k] = c.in

\* the bot as main finds it: nothing tracked, no cycle run
StrategyAtRest ==
  /\ main = "starting" /\ started = 0 /\ cycleCount = 0
  /\ cycles = [a \in Activations |-> NoCycle]
  /\ ourPosts = <<>> /\ lastBootstrap = 0
  /\ commentedPosts = {} /\ repliedComments = {}
  /\ lastPostTime = 0 /\ now = Least(Instants)
  /\ commentOk = [p \in ForumPosts |-> 0] /\ postLog = NoPostLog /\ searched = ""

\* the bot has not been started and nothing is under the sanitizer
BotAtRest ==
  /\ env = Env(Unset, Unset, Unset) /\ candidate = <<>> /\ reason = Unchecked
  /\ strategies = NoStrategies
  /\ StrategyAtRest

(***************************************************************************)
(* The state: where autoVerify stands, the challenge of the response it    *)
(* was given, the locals of solveChallenge after its run and, for the      *)
(* solver of lib/api.js, the text the language model replied; the response *)
(* autoVerify was called with, the bodies it has posted to /verify and     *)
(* what it gave its caller.                                                *)
(***************************************************************************)
VARIABLES pc, challenge, s, stripped, digitMatches, wordNums, numbers, text,
          op, answer, error, reply, response, verifyPosts, result

solverVars == <<pc, challenge, s, stripped, digitMatches, wordNums, numbers, text,
                op, answer, error, reply, response, verifyPosts, result>>

vars == <<solverVars, botVars>>

\* the verification codes of the forum
Codes == {"code-a", "code-b"}

\* a response without a verification part
NoVerification == [code |-> "", challenge |-> <<>>]

\* a response that asks for verification of the challenge c under the code k
Required(k, c) ==
  [verification_required |-> TRUE, verification |-> [code |-> k, challenge |-> c]]

\* a response that asks for none
NotRequired == [verification_required |-> FALSE, verification |-> NoVerification]

\* the responses autoVerify of bot.js is called with
Responses ==
  {Required("code-a", c) : c \in Challenges}
    \cup {Required(k, c) : k \in Codes, c \in ScenarioChallenges}
    \cup {NotRequired}

\* the responses autoVerify of lib/api.js is called with
ModelResponses ==
  {Required(k, c) : k \in Codes, c \in ScenarioChallenges} \cup {NotRequired}

\* what autoVerify gives its caller: the response itself, the JSON of /verify,
\* or an error: the solver's, or the one api throws when /verify is not ok
GaveResponse == "response"
GaveVerifyResult == "result of POST /verify"
VerifyNotOk == "POST /verify failed"

\* the body without the verification code
VerifyBody_NoCode(k, a) == [verification_code |-> "", answer |-> a]

\* lines 137-140: the body of the request to /verify
VerifyBody(k, a) == [verification_code |-> k, answer |-> a]

\* line 112
InsufficientNumbers == "Could not extract enough numbers from challenge"

NoLocals ==
  /\ s = <<>> /\ stripped = <<>> /\ digitMatches = <<>> /\ wordNums = <<>>
  /\ numbers = <<>> /\ text = <<>> /\ op = "" /\ answer = <<>> /\ error = ""
  /\ reply = <<>>

NoCall == response = NotRequired /\ verifyPosts = <<>> /\ result = ""

SolverAtRest == pc = "idle" /\ challenge = <<>> /\ NoLocals /\ NoCall

Init == SolverAtRest /\ BotAtRest

\* lines 133-135: autoVerify is given a response that requires verification and
\* calls solveChallenge with its challenge
AutoVerify(r) ==
  /\ UNCHANGED botVars
  /\ pc = "idle"
  /\ response' = r
  /\ IF r.verification_required
     THEN pc' = "solving" /\ challenge' = r.verification.challenge /\ result' = ""
     ELSE pc' = "done" /\ challenge' = <<>> /\ result' = GaveResponse
  /\ UNCHANGED <<s, stripped, digitMatches, wordNums, numbers, text, op, answer,
                 error, reply, verifyPosts>>

\* line 109 without its preference: always the union
ChooseNumbers_AlwaysUnion(wn, dm) == Dedup(wn \o dm)

\* line 109
ChooseNumbers(wn, dm) == IF Len(wn) >= 2 THEN wn ELSE Dedup(wn \o dm)

\* the check of line 111 with a single number let through
TooFew_OneIsEnough(nums) == Len(nums) < 1

\* line 111
TooFew(nums) == Len(nums) < 2

\* line 107: the numbers of the digit matches
DigitMatches(str) ==
  LET tok == DigitMatchesFrom(str, 1)
  IN  [i \in 1..Len(tok) |-> ToNumber(tok[i])]

\* lines 77-131: the locals of one run of solveChallenge and its outcome, the
\* answer it returns or the error it throws
solveChallenge(c) ==
  LET s1 == Normalize(c)
      st == ApplyWordMap(Reassemble(s1), 1)
      dm == DigitMatches(s1)
      wn == WordNumsFrom(st, 1)
      ns == ChooseNumbers(wn, dm)
      tx == TextOf(c, s1, st)
      o  == InferOperation(tx)
  IN  IF TooFew(ns)
      THEN [s |-> s1, stripped |-> st, digitMatches |-> dm, wordNums |-> wn,
            numbers |-> ns, text |-> <<>>, op |-> "", answer |-> <<>>,
            error |-> InsufficientNumbers]
      ELSE [s |-> s1, stripped |-> st, digitMatches |-> dm, wordNums |-> wn,
            numbers |-> ns, text |-> tx, op |-> o,
            answer |-> ToFixed2(Compute(o, ns)), error |-> ""]

\* line 135: autoVerify runs solveChallenge on the challenge of the response
Solve ==
  /\ UNCHANGED botVars
  /\ pc = "solving"
  /\ \E r \in {solveChallenge(challenge)} :
       /\ s' = r.s
       /\ stripped' = r.stripped
       /\ digitMatches' = r.digitMatches
       /\ wordNums' = r.wordNums
       /\ numbers' = r.numbers
       /\ text' = r.text
       /\ op' = r.op
       /\ answer' = r.answer
       /\ error' = r.error
       /\ pc' = IF r.error = "" THEN "returned" ELSE "thrown"
  /\ UNCHANGED <<challenge, reply, response, verifyPosts, result>>

\* lines 136-142: the answer is posted to /verify with the code of the
\* response; autoVerify returns the result, or api throws when the forum
\* does not answer ok
PostVerify ==
  /\ UNCHANGED botVars
  /\ pc = "returned"
  /\ pc' = "done"
  /\ verifyPosts' = Append(verifyPosts, VerifyBody(response.verification.code, answer))
  /\ \E ok \in BOOLEAN : result' = IF ok THEN GaveVerifyResult ELSE VerifyNotOk
  /\ UNCHANGED <<challenge, s, stripped, digitMatches, wordNums, numbers, text, op,
                 answer, error, reply, response>>

\* line 135: the error of solveChallenge leaves autoVerify, nothing is posted
Propagate ==
  /\ UNCHANGED botVars
  /\ pc = "thrown"
  /\ pc' = "done"
  /\ result' = error
  /\ UNCHANGED <<challenge, s, stripped, digitMatches, wordNums, numbers, text, op,
                 answer, error, reply, response, verifyPosts>>

\* the caller has what autoVerify gave it; nothing of the call is left
Return ==
  /\ UNCHANGED botVars
  /\ pc = "done"
  /\ pc' = "idle"
  /\ challenge' = <<>>
  /\ s' = <<>> /\ stripped' = <<>> /\ digitMatches' = <<>> /\ wordNums' = <<>>
  /\ numbers' = <<>> /\ text' = <<>> /\ op' = "" /\ answer' = <<>> /\ error' = ""
  /\ reply' = <<>>
  /\ response' = NotRequired /\ verifyPosts' = <<>> /\ result' = ""

(***************************************************************************)
(* The solver of lib/api.js, lines 74-116: the challenge is put to a       *)
(* language model and the answer is read from the text of its reply.       *)
(***************************************************************************)
\* what the model may reply: up to MaxReplyWords of these words
MaxReplyWords == 2

r_the    == <<"T","h","e">>
r_answer == <<"a","n","s","w","e","r">>
r_25_00  == <<"2","5",".","0","0">>
r_minus3 == <<"-","3",".","5">>
r_20     == <<"2","0">>
r_plus   == <<"+">>
r_1_005  == <<"1",".","0","0","5">>

ReplyWords == {r_the, r_answer, r_25_00, r_minus3, r_20, r_plus, r_1_005}

\* line 98: response.content[0].text, with or without a closing line feed
Replies ==
  UNION { {Join(ws) \o end : ws \in [1..n -> ReplyWords], end \in {<<>>, <<"\n">>}} :
            n \in 0..MaxReplyWords }

\* line 101
CouldNotParse == "Could not parse answer from Claude"

\* line 99: where /-?\d+\.?\d*/ can start a match
NumberStarts(str) ==
  {i \in 1..Len(str) :
     \/ str[i] \in Digit
     \/ str[i] = "-" /\ i < Len(str) /\ str[i + 1] \in Digit}

\* line 99: answer.match(/-?\d+\.?\d*/) : the leftmost match, <<>> for null
MatchNumber(str) ==
  IF NumberStarts(str) = {} THEN <<>>
  ELSE LET i == Least(NumberStarts(str))
           d == IF str[i] = "-" THEN i + 1 ELSE i
           e == RunEnd(str, d)
           f == IF e + 1 <= Len(str) /\ str[e + 1] = "."
                THEN IF e + 2 <= Len(str) /\ str[e + 2] \in Digit
                     THEN RunEnd(str, e + 2)
                     ELSE e + 1
                ELSE e
       IN  SubSeq(str, i, f)

RECURSIVE PowerOfTen(_)
PowerOfTen(n) == IF n = 0 THEN 1 ELSE 10 * PowerOfTen(n - 1)

\* line 103: Number(match[0]), as the fraction the decimal numeral denotes
NumberOf(m) ==
  LET body  == IF m[1] = "-" THEN Tail(m) ELSE m
      pts   == {p \in 1..Len(body) : body[p] = "."}
      whole == IF pts = {} THEN body ELSE SubSeq(body, 1, Least(pts) - 1)
      frac  == IF pts = {} THEN <<>> ELSE SubSeq(body, Least(pts) + 1, Len(body))
      n     == ToNumber(whole \o frac)
  IN  [num |-> IF m[1] = "-" THEN 0 - n ELSE n, den |-> PowerOfTen(Len(frac))]

\* lines 98-103: the answer read from the reply, or the error thrown
ParseReply(t) ==
  LET m == MatchNumber(Trim(t))
  IN  IF m = <<>>
      THEN [answer |-> <<>>, error |-> CouldNotParse]
      ELSE [answer |-> ToFixed2(NumberOf(m)), error |-> ""]

\* lines 106-108 and 77: autoVerify is given a response that requires
\* verification, and solveChallenge sends the challenge to the model
AskModel(r) ==
  /\ UNCHANGED botVars
  /\ pc = "idle"
  /\ response' = r
  /\ IF r.verification_required
     THEN pc' = "asking" /\ challenge' = r.verification.challenge /\ result' = ""
     ELSE pc' = "done" /\ challenge' = <<>> /\ result' = GaveResponse
  /\ UNCHANGED <<s, stripped, digitMatches, wordNums, numbers, text, op, answer,
                 error, reply, verifyPosts>>

\* lines 77-103: the model replies t, and solveChallenge returns the number
\* it finds in t or throws
ModelReplies(t) ==
  /\ UNCHANGED botVars
  /\ pc = "asking"
  /\ reply' = t
  /\ \E r \in {ParseReply(t)} :
       /\ answer' = r.answer
       /\ error' = r.error
       /\ pc' = IF r.error = "" THEN "answered" ELSE "unparsed"
  /\ UNCHANGED <<challenge, s, stripped, digitMatches, wordNums, numbers, text, op,
                 response, verifyPosts, result>>

\* lines 109-115: the answer is posted to /verify with the code of the
\* response; autoVerify returns the result, or api throws
PostModelAnswer ==
  /\ UNCHANGED botVars
  /\ pc = "answered"
  /\ pc' = "done"
  /\ verifyPosts' = Append(verifyPosts, VerifyBody(response.verification.code, answer))
  /\ \E ok \in BOOLEAN : result' = IF ok THEN GaveVerifyResult ELSE VerifyNotOk
  /\ UNCHANGED <<challenge, s, stripped, digitMatches, wordNums, numbers, text, op,
                 answer, error, reply, response>>

\* line 108: the error of solveChallenge leaves autoVerify, nothing is posted
PropagateUnparsed ==
  /\ UNCHANGED botVars
  /\ pc = "unparsed"
  /\ pc' = "done"
  /\ result' = error
  /\ UNCHANGED <<challenge, s, stripped, digitMatches, wordNums, numbers, text, op,
                 answer, error, reply, response, verifyPosts>>

Next ==
  \/ \E r \in Responses : AutoVerify(r)
  \/ Solve
  \/ PostVerify
  \/ Propagate
  \/ \E r \in ModelResponses : AskModel(r)
  \/ \E t \in Replies : ModelReplies(t)
  \/ PostModelAnswer
  \/ PropagateUnparsed
  \/ Return

Spec == Init /\ [][Next]_vars

(***************************************************************************)
(* What the properties below speak of                                      *)
(***************************************************************************)
\* a run of solveChallenge has ended
Done == pc \in {"returned", "thrown"}

\* the words of a text: its maximal runs of characters other than the space
RECURSIVE WordsFrom(_, _)
WordsFrom(str, i) ==
  IF i > Len(str) THEN <<>>
  ELSE IF str[i] = " " THEN WordsFrom(str, i + 1)
  ELSE LET ends == {j \in i..Len(str) : j = Len(str) \/ str[j + 1] = " "}
       IN  <<SubSeq(str, i, Least(ends))>> \o WordsFrom(str, Least(ends) + 1)

Words(str) == WordsFrom(str, 1)

Range(seq) == {seq[i] : i \in 1..Len(seq)}

\* how often x occurs in seq
Count(seq, x) == Cardinality({i \in 1..Len(seq) : seq[i] = x})

IsDigitRun(w) == w # <<>> /\ \A i \in 1..Len(w) : w[i] \in Digit

\* digits, a point, two digits, after an optional minus sign
IsTwoDecimal(a) ==
  LET b == IF a # <<>> /\ a[1] = "-" THEN Tail(a) ELSE a
  IN  /\ Len(b) >= 4
      /\ b[Len(b) - 2] = "."
      /\ \A i \in 1..Len(b) : i # Len(b) - 2 => b[i] \in Digit

\* the number of hundredths a two-decimal string stands for
AnswerHundredths(a) ==
  LET b == IF a[1] = "-" THEN Tail(a) ELSE a
      h == 100 * ToNumber(SubSeq(b, 1, Len(b) - 3))
             + ToNumber(SubSeq(b, Len(b) - 1, Len(b)))
  IN  IF a[1] = "-" THEN 0 - h ELSE h

\* no tens word occurs in the text, so no number word is part of a compound
NoTensWord(str) == \A k \in 1..Len(Tens) : ~Matches(str, Tens[k])

\* none of the operation rules of lines 117-127 finds a cue
NoOperationKeyword(t) ==
  /\ ~SubtractCue(t) /\ ~TripleCue(t) /\ ~DoubleCue(t)
  /\ ~MultiplCue(t) /\ ~PerCue(t) /\ ~DivideCue(t)

\* the rules in the order of their priority, and when each applies
Priority == <<"subtract", "triple", "double", "multiply", "divide", "add">>

RuleApplies(rule, t) ==
  CASE rule = "subtract" -> SubtractCue(t) /\ ResultCue(t)
    [] rule = "triple"   -> TripleCue(t)
    [] rule = "double"   -> DoubleCue(t)
    [] rule = "multiply" -> MultiplCue(t) \/ (PerCue(t) /\ TotalCue(t))
    [] rule = "divide"   -> DivideCue(t) /\ ~TotalCue(t)
    [] rule = "add"      -> TRUE

(***************************************************************************)
(* C1: every answer that solveChallenge returns is a decimal string with   *)
(* exactly two digits after the point, for every challenge and operation,  *)
(* divide included.                                                        *)
(***************************************************************************)
C1_TwoFractionalDigits == pc = "returned" => IsTwoDecimal(answer)

(***************************************************************************)
(* C2: when the operation is divide and the second extracted number is     *)
(* zero, solveChallenge fails and returns no answer.                       *)
(***************************************************************************)
C2_DivisionByZeroFails ==
  ~(pc = "returned" /\ op = "divide" /\ numbers[2] = 0)

(***************************************************************************)
(* C3: a challenge from which fewer than two numbers are extracted makes   *)
(* solveChallenge fail with the insufficient-numbers error, without an     *)
(* answer, whatever cues its text has.                                     *)
(***************************************************************************)
C3_TooFewNumbersFail ==
  (Done /\ Len(numbers) < 2) =>
     pc = "thrown" /\ error = InsufficientNumbers /\ answer = <<>>

\* one number and a divide cue: the run ends with the error
C3_Witness ==
  /\ pc = "thrown"
  /\ Len(numbers) = 1
  /\ DivideCue(s)

(***************************************************************************)
(* C4: every occurrence of a number word is converted: a number word that  *)
(* occurs n >= 2 times among the words of the challenge yields n numbers   *)
(* of its value.  Stated for the words whose pattern has no lookahead.     *)
(***************************************************************************)
C4_EveryOccurrenceConverted ==
  Done =>
    \A k \in 1..Len(Singles) :
       LET n == Count(Words(s), Singles[k].alts[1])
       IN  (Singles[k].look = "none" /\ n >= 2) =>
              error = "" /\ Count(numbers, Singles[k].val) >= n

(***************************************************************************)
(* C5: each of the words one..ten that occurs as a word of the challenge   *)
(* (a challenge without tens words) is replaced by its numeral between     *)
(* separators, whatever word follows it.                                   *)
(***************************************************************************)
C5_NumberWordsReplaced ==
  (Done /\ NoTensWord(s)) =>
    \A k \in 1..Len(Singles) :
       Singles[k].alts[1] \in Range(Words(s)) =>
          Contains(stripped, <<" ">> \o NatToStr(Singles[k].val) \o <<" ">>)

(***************************************************************************)
(* C6: the numbers are listed in the order in which they occur in the      *)
(* challenge, also when digit runs and number words are mixed: when the    *)
(* challenge begins with its only digit run, that number is numbers[0].    *)
(***************************************************************************)
C6_FirstNumberFirst ==
  LET ws == Words(s)
  IN  (/\ pc = "returned"
       /\ ws # <<>>
       /\ IsDigitRun(ws[1])
       /\ \A i \in 2..Len(ws) : ~IsDigitRun(ws[i]))
      => numbers[1] = ToNumber(ws[1])

(***************************************************************************)
(* C7: of a challenge that has only digit runs and separators the numbers  *)
(* are exactly the digit runs: none joined from neighbours, none dropped.  *)
(***************************************************************************)
C7_DigitChallengeUnchanged ==
  (/\ Done
   /\ challenge # <<>>
   /\ \A i \in 1..Len(challenge) : challenge[i] \in Digit \cup {" "})
  => numbers = [i \in 1..Len(Words(s)) |-> ToNumber(Words(s)[i])]

C9_FirstRuleWins ==
  pc = "returned" =>
    \E i \in 1..Len(Priority) :
       /\ op = Priority[i]
       /\ RuleApplies(Priority[i], text)
       /\ \A j \in 1..(i - 1) : ~RuleApplies(Priority[j], text)

\* the conditions of four rules hold at once, and subtract decides
C9_Witness ==
  /\ pc = "returned"
  /\ op = "subtract"
  /\ RuleApplies("triple", text)
  /\ RuleApplies("double", text)
  /\ RuleApplies("multiply", text)

(***************************************************************************)
(* C10: with the numbers N (two at least) and the operation, the value is: *)
(* add, the sum of N; subtract, N[0] less the sum of the others; multiply, *)
(* the product of N; double and triple, N[0]*2 and N[0]*3; divide,         *)
(* N[0]/N[1].  The answer is that value in hundredths: exactly for the     *)
(* whole values, to the nearest hundredth for the quotient.                *)
(***************************************************************************)
C10_ValueOfOperation ==
  (pc = "returned" /\ ~(op = "divide" /\ numbers[2] = 0)) =>
     LET h == AnswerHundredths(answer)
         N == numbers
     IN  CASE op = "add"      -> h = 100 * Sum(N)
           [] op = "subtract" -> h = 100 * (N[1] - Sum(Rest(N)))
           [] op = "multiply" -> h = 100 * Product(N)
           [] op = "double"   -> h = 100 * (N[1] * 2)
           [] op = "triple"   -> h = 100 * (N[1] * 3)
           [] op = "divide"   -> 2 * Abs(100 * N[1] - h * N[2]) <= N[2]

\* a subtraction with three numbers, where the sum of the others counts
C10_Witness ==
  /\ pc = "returned"
  /\ op = "subtract"
  /\ Len(numbers) = 3
  /\ numbers[3] > 0

\* digits, a point, digits
IsDecimalLiteral(w) ==
  \E p \in 2..(Len(w) - 1) :
    /\ w[p] = "."
    /\ \A i \in 1..Len(w) : i # p => w[i] \in Digit

HasDigit(w) == \E i \in 1..Len(w) : w[i] \in Digit

(***************************************************************************)
(* C11: a literal decimal number of the challenge (digits, a point,        *)
(* digits, as in "3.5") is extracted as one number token, not as two      *)
(* separate integers: with such a literal in the challenge, the literal    *)
(* scan yields one token for each word of the challenge that has digits.   *)
(***************************************************************************)
C11_DecimalIsOneToken ==
  (Done /\ \E i \in 1..Len(Words(challenge)) : IsDecimalLiteral(Words(challenge)[i])) =>
     Len(digitMatches) =
        Cardinality({i \in 1..Len(Words(challenge)) : HasDigit(Words(challenge)[i])})

(***************************************************************************)
(* C12: the teen patterns tolerate typos: a challenge with the word        *)
(* "fiften", just as one with the word "fifteen", has the number 15 among  *)
(* the numbers its number words give.                                      *)
(***************************************************************************)
C12_FiftenIsFifteen ==
  (Done /\ Range(Words(challenge)) \cap {w_fiften, w_fifteen} # {}) =>
     15 \in Range(wordNums)

\* the values of seq in the order of their first occurrence, and no other
IsDedupOf(list, seq) ==
  /\ Range(list) = Range(seq)
  /\ \A i, j \in 1..Len(list) : i # j => list[i] # list[j]
  /\ \A i, j \in 1..Len(list) :
       i < j => \E p, q \in 1..Len(seq) :
                  /\ seq[p] = list[i] /\ seq[q] = list[j] /\ p < q
                  /\ \A k \in 1..(q - 1) : seq[k] # list[j]

(***************************************************************************)
(* C13: the final number list is the list the number words gave when that  *)
(* list has two values or more, and the literal digit runs are then        *)
(* ignored; otherwise it is the word-derived values followed by the        *)
(* literal digit values, with every repeated value dropped.                *)
(***************************************************************************)
C13_NumberListChoice ==
  Done =>
    IF Len(wordNums) >= 2
    THEN numbers = wordNums
    ELSE IsDedupOf(numbers, wordNums \o digitMatches)

\* two number words and a literal digit run whose value is left out
C13_Witness ==
  /\ Done
  /\ Len(wordNums) >= 2
  /\ \E i \in 1..Len(digitMatches) : digitMatches[i] \notin Range(numbers)

\* three equal letters in a row, whatever their case
HasLetterTriple(str) ==
  \E i \in 3..Len(str) :
    /\ ToLowerChar(str[i]) \in Lower
    /\ ToLowerChar(str[i - 1]) = ToLowerChar(str[i])
    /\ ToLowerChar(str[i - 2]) = ToLowerChar(str[i])

(***************************************************************************)
(* C14: for every raw challenge, the normalised text s has only lower-case *)
(* letters, digits and spaces, and no letter more than twice in a row.     *)
(***************************************************************************)
C14_NormalizedAlphabet ==
  Done =>
    /\ \A i \in 1..Len(s) : s[i] \in Lower \cup Digit \cup {" "}
    /\ ~HasLetterTriple(s)

\* a raw challenge with a capital, a punctuation mark and a letter three
\* times in a row has been normalised
C14_Witness ==
  /\ Done
  /\ \E i \in 1..Len(challenge) : challenge[i] \in Upper
  /\ \E i \in 1..Len(challenge) :
       challenge[i] \notin Lower \cup Upper \cup Digit \cup Whitespace
  /\ HasLetterTriple(challenge)
  /\ s # <<>>

(***************************************************************************)
(* C15: normalisation is idempotent: the Normalizer (lower case, spaces    *)
(* for non-alphanumerics, whitespace collapsed, trimmed, letter runs of    *)
(* three or more cut to two) applied to the normalised text s gives s.     *)
(***************************************************************************)
C15_NormalizeIdempotent == Done => Normalize(s) = s

\* a normalised text that differs from its challenge and has a space and a
\* doubled letter, where a second pass could collapse, trim or fold again
C15_Witness ==
  /\ Done
  /\ s # challenge
  /\ \E i \in 1..Len(s) : s[i] = " "
  /\ \E i \in 2..Len(s) : s[i] \in Lower /\ s[i - 1] = s[i]

\* the model's reply has text besides one number: a character that is no
\* digit, sign, point or whitespace
HasExtraText(t) ==
  \E i \in 1..Len(t) : t[i] \notin Digit \cup Whitespace \cup {"-", "."}

(***************************************************************************)
(* C16: on the model-assisted path, a reply of the model that fails the    *)
(* structural validation, here one with extra text, is rejected with an    *)
(* error and no answer is made from it.                                    *)
(***************************************************************************)
C16_MalformedReplyRejected ==
  (pc \in {"answered", "unparsed"} /\ HasExtraText(reply)) =>
     pc = "unparsed" /\ answer = <<>>

(***************************************************************************)
(* C18: the challenge "the BALL weighs  tWenTy Kilos aNd ANother weighs    *)
(* fiVVVe kilos what is the total" yields the numbers 20 and 5, the        *)
(* operation add and the answer "25.00".                                   *)
(***************************************************************************)
C18_BallScenario ==
  (Done /\ challenge = BallChallenge) =>
     /\ pc = "returned"
     /\ numbers = <<20, 5>>
     /\ op = "add"
     /\ answer = <<"2","5",".","0","0">>

(***************************************************************************)
(* C19: the challenge "a train travels at fourty miles per hour and slows  *)
(* by fivve what is the new speed" yields the numbers 40 and 5, the        *)
(* operation subtract, although the cue "per" is present, and the answer   *)
(* "35.00".                                                                *)
(***************************************************************************)
C19_TrainScenario ==
  (Done /\ challenge = TrainChallenge) =>
     /\ pc = "returned"
     /\ numbers = <<40, 5>>
     /\ op = "subtract"
     /\ answer = <<"3","5",".","0","0">>

(***************************************************************************)
(* C20: the challenge "tripple the value of twelve", with one number word  *)
(* and a triple cue, is solved as 12 times 3 and yields the answer         *)
(* "36.00".                                                                *)
(***************************************************************************)
C20_TrippleScenario ==
  (Done /\ challenge = TrippleChallenge) =>
     /\ pc = "returned"
     /\ numbers[1] = 12
     /\ answer = <<"3","6",".","0","0">>

NoNumberWord(str) == \A k \in 1..Len(WORD_MAP) : ~Matches(Reassemble(str), WORD_MAP[k])

(***************************************************************************)
(* C30: a challenge with no number word and two literal digit runs or more *)
(* never fails with the insufficient-numbers error, also when the digit    *)
(* runs have equal values, as in "5 plus 5".                               *)
(***************************************************************************)
C30_TwoDigitRunsSuffice ==
  (/\ Done
   /\ NoNumberWord(s)
   /\ Cardinality({i \in 1..Len(Words(s)) : IsDigitRun(Words(s)[i])}) >= 2)
  => error # InsufficientNumbers

\* no run of a solver has left a trace: solveChallenge was not called
SolverNotCalled == NoLocals

(***************************************************************************)
(* C22: autoVerify follows the verification protocol.  For a response      *)
(* without verification_required it gives back the response and makes      *)
(* neither a solver call nor a /verify request.  For one with              *)
(* verification_required it sends exactly one POST /verify, with the code  *)
(* of the response and the answer of the solver, and only after the solver *)
(* returned.  If the solver fails, nothing is sent to /verify and the      *)
(* caller gets the solver's error.                                         *)
(***************************************************************************)
C22_VerifyProtocol ==
  /\ (pc = "done" /\ ~response.verification_required) =>
        /\ result = GaveResponse
        /\ SolverNotCalled
        /\ verifyPosts = <<>>
  /\ pc \in {"idle", "solving", "returned", "thrown", "asking", "answered", "unparsed"} =>
        verifyPosts = <<>>
  /\ (pc = "done" /\ response.verification_required /\ error = "") =>
        /\ answer # <<>>
        /\ verifyPosts =
             <<[verification_code |-> response.verification.code, answer |-> answer]>>
        /\ result \in {GaveVerifyResult, VerifyNotOk}
  /\ (pc = "done" /\ response.verification_required /\ error # "") =>
        /\ verifyPosts = <<>>
        /\ result = error

\* autoVerify of bot.js has posted the answer of its solver under the second
\* code and has the result of /verify
C22_Witness ==
  /\ pc = "done"
  /\ response.verification_required
  /\ response.verification.code = "code-b"
  /\ Len(verifyPosts) = 1
  /\ numbers # <<>>
  /\ result = GaveVerifyResult


(***************************************************************************)
(* containsSensitiveData as a function of the environment and the text     *)
(***************************************************************************)
SanitizerInit ==
  /\ SolverAtRest
  /\ env \in Envs /\ candidate \in SanitizerTexts /\ reason = Unchecked
  /\ strategies = NoStrategies
  /\ StrategyAtRest

\* lines 22-43: the text is put to containsSensitiveData
Check ==
  /\ reason = Unchecked
  /\ reason' = containsSensitiveData(candidate)
  /\ UNCHANGED <<solverVars, env, candidate, strategies, main, started, cycleCount,
                 cycles, memVars, trackVars, timeVars, ghostVars>>

SanitizerNext == Check

SpecSanitizer == SanitizerInit /\ [][SanitizerNext]_vars

\* the secrets the environment configures
ConfiguredSecrets == {env[n] : n \in DOMAIN env} \ {<<>>}

\* str holds the secret in full or 8 or more consecutive characters of it
HoldsPartOf(str, secret) ==
  \/ Includes(str, secret)
  \/ \E i \in 0..Len(secret) : \E j \in 0..Len(secret) :
       j - i >= 8 /\ Includes(str, Slice(secret, i, j))

\* C24: containsSensitiveData flags every text that holds a configured,
\* non-empty secret in full or at least 8 consecutive characters of one.
C24_SecretPartsFlagged ==
  \A secret \in ConfiguredSecrets :
    reason # Unchecked /\ HoldsPartOf(candidate, secret) => reason # Null

(***************************************************************************)
(* The steps of a cycle                                                    *)
(***************************************************************************)
\* the cycle a goes on as c; line 53: cycleCount++ when runCycle completes;
\* lines 70-77: main sets the interval after its first cycle, or exits when
\* that cycle rejects
GoOn(a, c) ==
  /\ cycles' = [cycles EXCEPT ![a] = c]
  /\ cycleCount' = IF c.at = "complete" THEN cycleCount + 1 ELSE cycleCount
  /\ main' = IF main = "first cycle" /\ c.at = "complete" THEN "interval set"
             ELSE IF main = "first cycle" /\ c.at = "rejected" THEN "exited"
             ELSE main
  /\ UNCHANGED <<solverVars, fixedVars, started>>

\* the cycle a stands in the strategy name at the call it awaits
Awaits(a, name, call) == cycles[a].in = name /\ cycles[a].at = call

\* lines 44-50 and 455-456: runCycle calls run with cycleCount, run awaits getMe
StartCycle(a) ==
  /\ cycles' = [cycles EXCEPT ![a] =
                  [NoCycle EXCEPT !.at = "getMe", !.count = cycleCount, !.nth = started + 1]]
  /\ started' = started + 1
  /\ UNCHANGED <<solverVars, fixedVars, cycleCount, memVars, trackVars, timeVars, ghostVars>>

\* line 70: main awaits the first cycle
MainRunsCycle ==
  /\ main = "starting"
  /\ main' = "first cycle"
  /\ StartCycle("a1")

\* line 72: the interval elapses and the timer calls runCycle
TimerFires(a) ==
  /\ main = "interval set"
  /\ started < MaxCycles
  /\ ~InProgress(cycles[a])
  /\ a = CHOOSE b \in Activations : ~InProgress(cycles[b])
  /\ UNCHANGED main
  /\ StartCycle(a)

\* the condition without the age of the last bootstrap
BootstrapDue_OnlyWhenEmpty(posts, count, last) == posts = <<>>

\* line 460: memory is empty or two cycles have passed since the last bootstrap
BootstrapDue(posts, count, last) == posts = <<>> \/ count - last >= 2

\* lines 456-462: getMe answers, or throws and run rejects
GetMeReturns(a, ok) ==
  LET c == cycles[a]
  IN  /\ Awaits(a, "", "getMe")
      /\ GoOn(a, IF ~ok THEN [Between(c) EXCEPT !.at = "rejected"]
                 ELSE IF /\ strategies.bootstrapMemory
                         /\ BootstrapDue(ourPosts, c.count, lastBootstrap)
                      THEN [Between(c) EXCEPT !.in = "bootstrapMemory", !.at = "searchPosts"]
                      ELSE Enter(c, 1, ourPosts))
      /\ UNCHANGED <<memVars, trackVars, timeVars, ghostVars>>

\* lines 53-58 and 83-88: the search for the bot's posts answers; when it
\* threw, lastBootstrap stays; when it found nothing, the bootstrap is over;
\* searched keeps how the search ended
BootstrapSearchReturns(a, found) ==
  LET c == cycles[a]
  IN  /\ Awaits(a, "bootstrapMemory", "searchPosts")
      /\ CASE found = "threw" ->
                GoOn(a, Enter(c, 1, ourPosts)) /\ UNCHANGED lastBootstrap
           [] found = "none" ->
                GoOn(a, Enter(c, 1, ourPosts)) /\ lastBootstrap' = c.count
           [] found = "post" ->
                GoOn(a, [c EXCEPT !.at = "getPost", !.target = OwnPost])
                  /\ UNCHANGED lastBootstrap
      /\ searched' = IF found = "threw" THEN "threw" ELSE "answered"
      /\ UNCHANGED <<ourPosts, trackVars, timeVars, commentOk, postLog>>

\* Map.prototype.set: a new key comes last
MapSet(posts, id) == IF \E i \in 1..Len(posts) : posts[i] = id THEN posts ELSE Append(posts, id)

\* lines 59-85: the post is fetched and tracked, or the fetch threw; then
\* lastBootstrap = cycleCount
BootstrapPostReturns(a, ok) ==
  LET c == cycles[a]
  IN  /\ Awaits(a, "bootstrapMemory", "getPost")
      /\ \E posts \in {IF ok THEN MapSet(ourPosts, c.target) ELSE ourPosts} :
           /\ ourPosts' = posts
           /\ GoOn(a, Enter(c, 1, posts))
      /\ lastBootstrap' = c.count
      /\ UNCHANGED <<trackVars, timeVars, ghostVars>>

\* lines 175-176 and 203: the loop over the bot's posts goes to the next post
NextPost(c, posts) ==
  IF c.sent < MaxReplies /\ c.pi < Len(posts)
  THEN [c EXCEPT !.pi = c.pi + 1, !.at = "getComments", !.idx = 0, !.text = <<>>,
                 !.stale = FALSE]
  ELSE Enter(c, After(c), posts)

\* lines 183-185: the bot's own comments and the comments replied to are skipped
Skips(comment, replied) == comment.author = AgentName \/ comment.id \in replied

\* lines 181-188: the loop over the comments, from the j-th on, up to the
\* comment generateReply is awaited for
RECURSIVE ReplyScan(_, _, _, _)
ReplyScan(c, j, posts, replied) ==
  IF c.sent >= MaxReplies THEN Enter(c, After(c), posts)
  ELSE IF j > Len(Thread) THEN NextPost(c, posts)
  ELSE IF Skips(Thread[j], replied) THEN ReplyScan(c, j + 1, posts, replied)
  ELSE [c EXCEPT !.idx = j, !.at = "generate", !.target = posts[c.pi],
                 !.text = <<>>, !.stale = FALSE]

\* the strategies that comment on the posts of others
CommentStrategies == {"networkWithTopAgents", "commentOnHotPosts", "commentOnSubmolts"}

\* the loop of the strategy the cycle c is in goes to its next round
Continue(c, posts, replied) ==
  CASE c.in = "replyToComments" -> ReplyScan(c, c.idx + 1, posts, replied)
    [] c.in = "commentOnHotPosts" ->
         IF c.idx < Len(c.targets)
         THEN [c EXCEPT !.idx = c.idx + 1, !.target = c.targets[c.idx + 1],
                        !.at = "generate", !.text = <<>>, !.stale = FALSE]
         ELSE Enter(c, After(c), posts)
    [] c.in = "commentOnSubmolts" ->
         IF c.idx < Len(TargetSubmolts)
         THEN [c EXCEPT !.idx = c.idx + 1, !.target = "", !.at = "getPosts",
                        !.text = <<>>, !.stale = FALSE]
         ELSE Enter(c, After(c), posts)
    [] c.in = "networkWithTopAgents" ->
         IF c.idx < Len(c.targets)
         THEN [c EXCEPT !.idx = c.idx + 1, !.target = "", !.at = "searchPosts",
                        !.text = <<>>, !.stale = FALSE]
         ELSE Enter(c, After(c), posts)

\* lines 178-179 and 200-202: the comments of the post arrive, or the call threw
GetCommentsReturns(a, ok) ==
  LET c == cycles[a]
  IN  /\ Awaits(a, "replyToComments", "getComments")
      /\ GoOn(a, IF ok THEN ReplyScan(c, 1, ourPosts, repliedComments)
                 ELSE NextPost(c, ourPosts))
      /\ UNCHANGED <<memVars, trackVars, timeVars, ghostVars>>

\* lines 210-217 and 249-251: the hot feed arrives; the posts not yet commented
\* on, sorted by score, are the targets
HotFeedReturns(a, ok, feed) ==
  LET c == cycles[a]
      fresh == {p \in feed : p \notin commentedPosts}
  IN  /\ Awaits(a, "commentOnHotPosts", "getHotFeed")
      /\ \E targets \in Orderings(fresh) :
           GoOn(a, IF ok /\ targets # <<>>
                   THEN [c EXCEPT !.targets = targets, !.idx = 1, !.target = targets[1],
                                  !.at = "generate"]
                   ELSE Enter(c, After(c), ourPosts))
      /\ UNCHANGED <<memVars, trackVars, timeVars, ghostVars>>

\* lines 259-270 and 290-292: the posts of the submolt arrive; the best of
\* those not yet commented on is the target
SubmoltPostsReturn(a, ok, posts) ==
  LET c == cycles[a]
      fresh == {p \in posts : p \notin commentedPosts}
  IN  /\ Awaits(a, "commentOnSubmolts", "getPosts")
      /\ \/ /\ ok /\ fresh # {}
            /\ \E target \in fresh :
                 GoOn(a, [c EXCEPT !.target = target, !.at = "generate"])
         \/ /\ ~ok \/ fresh = {}
            /\ GoOn(a, Continue(c, ourPosts, repliedComments))
      /\ UNCHANGED <<memVars, trackVars, timeVars, ghostVars>>

\* lines 299-315 and 337-339: the leaderboard arrives with its first n agents;
\* the bot follows those it does not follow yet
LeaderboardReturns(a, ok, n, follows) ==
  LET c == cycles[a]
      names == SubSeq(Leaderboard, 1, n)
  IN  /\ Awaits(a, "networkWithTopAgents", "getLeaderboard")
      /\ GoOn(a, IF ~ok \/ n = 0 THEN Enter(c, After(c), ourPosts)
                 ELSE IF follows THEN [c EXCEPT !.targets = names, !.at = "followAgent"]
                 ELSE [c EXCEPT !.targets = names, !.idx = 1, !.at = "searchPosts"])
      /\ UNCHANGED <<memVars, trackVars, timeVars, ghostVars>>

\* lines 302-317: the agents are followed, a minute apart; then the posts of
\* the first agent are searched
Followed(a) ==
  LET c == cycles[a]
  IN  /\ Awaits(a, "networkWithTopAgents", "followAgent")
      /\ GoOn(a, [c EXCEPT !.idx = 1, !.at = "searchPosts"])
      /\ UNCHANGED <<memVars, trackVars, timeVars, ghostVars>>

\* lines 317-320 and 335: the search answers with the agent's posts; the first
\* is the target unless the bot has commented on it
AgentSearchReturns(a, found) ==
  LET c == cycles[a]
  IN  /\ Awaits(a, "networkWithTopAgents", "searchPosts")
      /\ GoOn(a, IF found \in ForumPosts \ commentedPosts
                 THEN [c EXCEPT !.target = found, !.at = "generate"]
                 ELSE Continue(c, ourPosts, repliedComments))
      /\ UNCHANGED <<memVars, trackVars, timeVars, ghostVars>>

\* an earlier cycle's comment on the post got through, or the comment replied
\* to is among the replied ones
Stale(c) ==
  IF c.in = "replyToComments" THEN Thread[c.idx].id \in repliedComments
  ELSE commentOk[c.target] # 0 /\ commentOk[c.target] < c.nth

\* generateComment and generateReply give the model's text as it is
Sanitized_Unchecked(out) == out

\* content.js lines 115-116 and 201-202: what generateComment and
\* generateReply give for the model's text
Sanitized(out) == sanitizeOutput(out)

\* lines 229-238, 279-283, 329-331, 188-192: the model's text arrives; a text the
\* sanitizer blocked, or an empty one, is skipped, any other goes to tryComment,
\* which awaits commentOnPost (line 425)
Generated(a, out) ==
  LET c == cycles[a]
      comment == Sanitized(out)
  IN  /\ c.in \in CommentStrategies \cup {"replyToComments"}
      /\ c.at = "generate"
      /\ GoOn(a, IF comment \in {NullText, <<>>}
                 THEN Continue(c, ourPosts, repliedComments)
                 ELSE [c EXCEPT !.at = "commentOnPost", !.text = comment,
                                !.stale = Stale(c)])
      /\ UNCHANGED <<memVars, trackVars, timeVars, ghostVars>>

\* lines 245-247, 290-292, 335, 200-202: the call of the model threw
GenerateThrows(a) ==
  LET c == cycles[a]
  IN  /\ c.in \in CommentStrategies \cup {"replyToComments"}
      /\ c.at = "generate"
      /\ GoOn(a, IF c.in = "replyToComments" THEN NextPost(c, ourPosts)
                 ELSE Continue(c, ourPosts, repliedComments))
      /\ UNCHANGED <<memVars, trackVars, timeVars, ghostVars>>

\* lines 425-426 and 429-432: commentOnPost answers and autoVerify is awaited, or
\* it threw, tryComment gives false and the strategy sleeps
CommentReturns(a, ok) ==
  LET c == cycles[a]
  IN  /\ c.in \in CommentStrategies \cup {"replyToComments"}
      /\ c.at = "commentOnPost"
      /\ GoOn(a, [c EXCEPT !.at = IF ok THEN "autoVerify" ELSE "sleep", !.text = <<>>])
      /\ commentOk' = IF ok /\ c.in \in CommentStrategies /\ commentOk[c.target] = 0
                      THEN [commentOk EXCEPT ![c.target] = c.nth] ELSE commentOk
      /\ UNCHANGED <<memVars, trackVars, timeVars, postLog, searched>>

\* lines 426-432 and 193-198: autoVerify answers: the post is tracked, and so is
\* the comment replied to; or it threw and nothing is tracked
VerifyReturns(a, ok) ==
  LET c == cycles[a]
      replying == c.in = "replyToComments"
  IN  /\ c.in \in CommentStrategies \cup {"replyToComments"}
      /\ c.at = "autoVerify"
      /\ GoOn(a, [c EXCEPT !.at = "sleep",
                           !.sent = IF ok /\ replying THEN c.sent + 1 ELSE c.sent])
      /\ commentedPosts' = IF ok THEN commentedPosts \cup {c.target} ELSE commentedPosts
      /\ repliedComments' = IF ok /\ replying
                            THEN repliedComments \cup {Thread[c.idx].id}
                            ELSE repliedComments
      /\ UNCHANGED <<memVars, timeVars, ghostVars>>

\* lines 198, 244, 289, 333: the minute is over
Wakes(a) ==
  LET c == cycles[a]
  IN  /\ c.in \in CommentStrategies \cup {"replyToComments"}
      /\ c.at = "sleep"
      /\ GoOn(a, Continue(c, ourPosts, repliedComments))
      /\ UNCHANGED <<memVars, trackVars, timeVars, ghostVars>>

\* HTTP status 429, too many requests
RateLimited == 429

\* the status of an error that is not a rate limit
ServerError == 500

\* what the language model may answer to generateViralPost: a text without a
\* JSON object, or an object with a title and a content
NoJson == [json |-> FALSE, title |-> <<>>, content |-> <<>>]
ViralOutputs ==
  {NoJson} \cup {[json |-> TRUE, title |-> t, content |-> b] : t \in ModelTexts, b \in ModelTexts}

\* content.js lines 158-171: the post generateViralPost gives, or null
ParsedPost(out) ==
  IF out.json /\ containsSensitiveData(out.title) = Null
              /\ containsSensitiveData(out.content) = Null
  THEN out ELSE NoJson

\* lines 384-390: the hot feed arrives, or the call threw; the model is asked
PostFeedReturns(a) ==
  LET c == cycles[a]
  IN  /\ Awaits(a, "createViralPost", "getHotFeed")
      /\ GoOn(a, [c EXCEPT !.at = "generateViralPost"])
      /\ UNCHANGED <<memVars, trackVars, timeVars, ghostVars>>

\* lines 390-394: nothing was generated and tryCreatePost returns, or createPost
\* is called with the title and the content
ViralGenerated(a, out) ==
  LET c == cycles[a]
      generated == ParsedPost(out)
  IN  /\ Awaits(a, "createViralPost", "generateViralPost")
      /\ GoOn(a, IF generated = NoJson THEN Enter(c, After(c), ourPosts)
                 ELSE [c EXCEPT !.at = "createPost", !.title = generated.title,
                                !.text = generated.content])
      /\ postLog' = IF generated = NoJson THEN postLog
                    ELSE [postLog EXCEPT !.early = now - lastPostTime < CooldownMinutes]
      /\ UNCHANGED <<memVars, trackVars, timeVars, commentOk, searched>>

\* line 395: createPost answers and autoVerify is awaited
CreateReturns(a) ==
  LET c == cycles[a]
  IN  /\ Awaits(a, "createViralPost", "createPost")
      /\ GoOn(a, [c EXCEPT !.at = "autoVerify", !.title = <<>>, !.text = <<>>])
      /\ UNCHANGED <<memVars, trackVars, timeVars, ghostVars>>

\* lines 411-418: lastPostTime after an error of the given status
TimeAfterError(status, last, t) == IF status = RateLimited THEN last ELSE t

\* lines 411-418: the model, createPost or autoVerify threw
PostFails(a, status) ==
  LET c == cycles[a]
  IN  /\ c.in = "createViralPost"
      /\ c.at \in {"generateViralPost", "createPost", "autoVerify"}
      /\ GoOn(a, Enter(c, After(c), ourPosts))
      /\ lastPostTime' = TimeAfterError(status, lastPostTime, now)
      /\ postLog' = [postLog EXCEPT
                       !.how = IF status = RateLimited THEN "rate limited" ELSE "failed",
                       !.kept = lastPostTime' = lastPostTime,
                       !.stamped = lastPostTime' = now]
      /\ UNCHANGED <<memVars, trackVars, now, commentOk, searched>>

\* lines 395-410: autoVerify answers: lastPostTime = Date.now(), and the new
\* post is tracked when the answer names it
Published(a, named) ==
  LET c == cycles[a]
  IN  /\ Awaits(a, "createViralPost", "autoVerify")
      /\ \E posts \in {IF named THEN MapSet(ourPosts, NewPost) ELSE ourPosts} :
           /\ ourPosts' = posts
           /\ GoOn(a, Enter(c, After(c), posts))
      /\ lastPostTime' = now
      /\ postLog' = [postLog EXCEPT !.how = "published",
                                    !.kept = lastPostTime' = lastPostTime,
                                    !.stamped = lastPostTime' = now]
      /\ UNCHANGED <<lastBootstrap, trackVars, now, commentOk, searched>>

\* time passes; only tryCreatePost reads the clock
Tick(t) ==
  /\ strategies.createViralPost
  /\ t > now
  /\ now' = t
  /\ UNCHANGED <<solverVars, fixedVars, main, started, cycleCount, cycles, memVars, trackVars,
                 lastPostTime, ghostVars>>

BotInit ==
  /\ pc = "idle" /\ challenge = <<>> /\ NoLocals /\ NoCall
  /\ env = BotEnv /\ candidate = <<>> /\ reason = Unchecked
  /\ strategies \in Modes
  /\ StrategyAtRest

BotNext ==
  \/ MainRunsCycle
  \/ \E a \in Activations : TimerFires(a)
  \/ \E a \in Activations, ok \in BOOLEAN : GetMeReturns(a, ok)
  \/ \E a \in Activations, found \in {"threw", "none", "post"} : BootstrapSearchReturns(a, found)
  \/ \E a \in Activations, ok \in BOOLEAN : BootstrapPostReturns(a, ok)
  \/ \E a \in Activations, ok \in BOOLEAN : GetCommentsReturns(a, ok)
  \/ \E a \in Activations, ok \in BOOLEAN, feed \in SUBSET ForumPosts : HotFeedReturns(a, ok, feed)
  \/ \E a \in Activations, ok \in BOOLEAN, posts \in SUBSET ForumPosts : SubmoltPostsReturn(a, ok, posts)
  \/ \E a \in Activations, ok \in BOOLEAN, n \in 0..Len(Leaderboard), follows \in BOOLEAN :
       LeaderboardReturns(a, ok, n, follows)
  \/ \E a \in Activations : Followed(a)
  \/ \E a \in Activations, found \in ForumPosts \cup {"none"} : AgentSearchReturns(a, found)
  \/ \E a \in Activations, out \in ModelTexts : Generated(a, out)
  \/ \E a \in Activations : GenerateThrows(a)
  \/ \E a \in Activations, ok \in BOOLEAN : CommentReturns(a, ok)
  \/ \E a \in Activations, ok \in BOOLEAN : VerifyReturns(a, ok)
  \/ \E a \in Activations : Wakes(a)
  \/ \E a \in Activations : PostFeedReturns(a)
  \/ \E a \in Activations, out \in ViralOutputs : ViralGenerated(a, out)
  \/ \E a \in Activations : CreateReturns(a)
  \/ \E a \in Activations, status \in {RateLimited, ServerError} : PostFails(a, status)
  \/ \E a \in Activations, named \in BOOLEAN : Published(a, named)
  \/ \E t \in Instants : Tick(t)

SpecBot == BotInit /\ [][BotNext]_vars

(***************************************************************************)
(* Properties of the main loop and the strategies                          *)
(***************************************************************************)
\* the cycles in progress
Running == {a \in Activations : InProgress(cycles[a])}

\* C29: at most one runCycle is in progress at any time: the timer starts no
\* cycle while an earlier one still awaits its strategies; so a cycle in progress,
\* the n-th that was started, has been given the cycleCount n - 1.
C29_OneCycleAtATime ==
  /\ Cardinality(Running) <= 1
  /\ \A a \in Running : cycles[a].count = cycles[a].nth - 1

\* C27: with the bootstrapMemory strategy enabled, a cycle whose getMe answered
\* runs bootstrapMemory exactly when memory.ourPosts is empty or its cycleCount
\* is at least 2 more than lastBootstrap; and lastBootstrap changes only to the
\* cycleCount of a cycle in bootstrapMemory whose search for posts answered.
C27_BootstrapEveryTwoCycles ==
  [][ /\ \A a \in Activations :
           ( /\ strategies.bootstrapMemory
             /\ cycles[a].at = "getMe"
             /\ cycles'[a].at \notin {"getMe", "rejected"} )
           => ( cycles'[a].in = "bootstrapMemory"
                  <=> (ourPosts = <<>> \/ cycles[a].count - lastBootstrap >= 2) )
      /\ lastBootstrap' # lastBootstrap
           => \E a \in Activations :
                /\ cycles[a].in = "bootstrapMemory"
                /\ lastBootstrap' = cycles[a].count
                /\ \/ cycles[a].at = "getPost"
                   \/ cycles[a].at = "searchPosts" /\ searched' = "answered"
    ]_vars

\* a cycle runs bootstrapMemory although posts are tracked: two cycles have
\* passed since the last bootstrap
C27_Witness ==
  \E a \in Activations :
    /\ cycles[a].in = "bootstrapMemory"
    /\ ourPosts # <<>>
    /\ cycles[a].count - lastBootstrap >= 2

\* C26: tryCreatePost calls createPost only when at least 35 minutes have passed
\* since lastPostTime; an attempt that fails with status 429 leaves lastPostTime
\* as it was, a published post and any other failure set it to the current time.
C26_PostCooldown ==
  /\ ~postLog.early
  /\ postLog.how = "rate limited" => postLog.kept
  /\ postLog.how \in {"published", "failed"} => postLog.stamped

\* C25: once a commentOnPost request for a post succeeded in one of the comment
\* strategies, no later cycle sends commentOnPost for that post from these
\* strategies.
C25_NoSecondComment ==
  \A a \in Activations :
    ~ ( /\ cycles[a].in \in CommentStrategies
        /\ cycles[a].at = "commentOnPost"
        /\ cycles[a].stale )

\* C28: replyToCommentsOnOurPosts publishes at most 5 replies in one call, never
\* awaits generateReply for a comment of the agent itself, and never sends a reply
\* to a comment whose id is in repliedComments; an id enters repliedComments only
\* in the step in which the autoVerify of the reply to that comment answered.
C28_RepliesOncePerComment ==
  [][ /\ \A a \in Activations :
           cycles'[a].in = "replyToComments" =>
             /\ cycles'[a].sent <= MaxReplies
             /\ cycles'[a].at = "generate" => Thread[cycles'[a].idx].author # AgentName
             /\ cycles'[a].at = "commentOnPost" => ~cycles'[a].stale
      /\ \A id \in repliedComments' \ repliedComments :
           \E a \in Activations :
             /\ cycles[a].in = "replyToComments"
             /\ cycles[a].at = "autoVerify"
             /\ Thread[cycles[a].idx].id = id
             /\ cycles'[a].sent = cycles[a].sent + 1
    ]_vars

\* C23: every text of the language model that a strategy passes to commentOnPost
\* (a comment or a reply) or to createPost (a title and a content) is one for
\* which containsSensitiveData gives null.
C23_OnlyCheckedTextsPosted ==
  \A a \in Activations :
    /\ cycles[a].at = "commentOnPost" => containsSensitiveData(cycles[a].text) = Null
    /\ cycles[a].at = "createPost" =>
         /\ containsSensitiveData(cycles[a].title) = Null
         /\ containsSensitiveData(cycles[a].text) = Null

C23_Witness ==
  \E a \in Activations :
    /\ cycles[a].in \in CommentStrategies
    /\ cycles[a].at = "commentOnPost"
    /\ cycles[a].text = WordsOfText

==============================================================================
